---- MODULE Spec2Model ----
(***************************************************************************)
(* State-machine model of VaultContract (src/src/lib.rs), an ERC-4626      *)
(* style vault on Soroban, together with the token contract it holds its   *)
(* assets in (MockToken, src/src/test.rs).                                 *)
(*                                                                         *)
(* i128 is modelled as a two's-complement integer of Bits bits.  Rust's    *)
(* +, - and * abort the call on overflow when the build has                *)
(* overflow-checks and wrap otherwise; the build is fixed in Init and      *)
(* never changes.  Every invocation is atomic: the host discards the       *)
(* storage writes of an invocation that returns Err or aborts.             *)
(***************************************************************************)
EXTENDS Integers, FiniteSets, TLC

\* ---------------------------------------------------------------- bounds
\* width of the modelled i128
Bits == 4
\* largest "ordinary" amount a caller passes (besides the extreme values)
SmallAmt == 2
\* committed invocations per behaviour
MaxCalls == 4
\* units of the asset that exist in the token contract
MaxTokens == 2

\* ------------------------------------------------------------- arithmetic
RECURSIVE Pow2(_)
Pow2(n) == IF n = 0 THEN 1 ELSE 2 * Pow2(n - 1)

Modulus == Pow2(Bits)
I128_MAX == Pow2(Bits - 1) - 1
I128_MIN == -Pow2(Bits - 1)
I128 == I128_MIN..I128_MAX

InRange(x) == I128_MIN <= x /\ x <= I128_MAX
Wrap(x) == ((x - I128_MIN) % Modulus) + I128_MIN

Abs(x) == IF x < 0 THEN -x ELSE x

\* a value, or the abort of the invocation
Val(x) == [ok |-> TRUE, v |-> x]
Trap == [ok |-> FALSE, v |-> 0]

VARIABLES
  overflow_checks,  \* the build: TRUE aborts on overflow, FALSE wraps
  Asset,            \* DataKey::Asset, "None" while unset
  Name,             \* DataKey::Name
  Symbol,           \* DataKey::Symbol
  Decimals,         \* DataKey::Decimals, -1 while unset
  TotalSupply,      \* DataKey::TotalSupply
  Balance,          \* DataKey::Balance(Address)
  Allowance,        \* DataKey::Allowance(Address, Address)
  TokenBalance,     \* the asset token's DataKey::Balance(Address)
  last,             \* the last invocation: operation, result
  calls,            \* committed invocations so far
  received,         \* assets the vault's token balance gained in deposit/mint
  paid_out,         \* assets the vault's token balance lost in withdraw/redeem
  approved,         \* approve has been invoked
  vault_only,       \* only initialize, deposit, mint, withdraw, redeem so far
  authorized,       \* the last invocation carried the authorization of its caller
  deposited         \* a deposit or mint has succeeded

vars == <<overflow_checks, Asset, Name, Symbol, Decimals, TotalSupply, Balance,
          Allowance, TokenBalance, last, calls, received, paid_out, approved,
          vault_only, authorized, deposited>>

\* the result of one +, - or * on in-range operands, x being the exact result
Arith(x) ==
  IF InRange(x) THEN Val(x)
  ELSE IF overflow_checks THEN Trap
  ELSE Val(Wrap(x))

\* Rust's / and %: truncated towards zero; a zero divisor and MIN / -1 abort
\* in every build
Div(a, b) ==
  IF b = 0 \/ (a = I128_MIN /\ b = -1) THEN Trap
  ELSE LET q == Abs(a) \div Abs(b)
       IN  Val(IF (a < 0) = (b < 0) THEN q ELSE -q)

Rem(a, b) ==
  IF b = 0 \/ (a = I128_MIN /\ b = -1) THEN Trap
  ELSE LET r == Abs(a) % Abs(b)
       IN  Val(IF a < 0 THEN -r ELSE r)

\* ---------------------------------------------------------------- domains
\* the vault's own address (env.current_contract_address()) and a user's
Vault == "vault"
Address == {Vault, "user"}

\* amounts callers pass
Amounts == (-1..SmallAmt) \cup {I128_MIN, I128_MAX}

\* An invocation whose authorization is missing aborts whatever its other
\* arguments are: one choice of them stands for all.
Addrs(auth) == IF auth THEN Address ELSE {Vault}
Amts(auth) == IF auth THEN Amounts ELSE {0}

\* arguments of initialize
InitArgs ==
  { [asset |-> "token", name |-> "Test Vault", symbol |-> "TVAULT", decimals |-> 18],
    [asset |-> "token2", name |-> "Test Vault 2", symbol |-> "TVAULT2", decimals |-> 7] }

\* error codes
ZeroAssets == 1
ZeroShares == 2
InsufficientBalance == 3
InsufficientAllowance == 4
InvalidAddress == 5
\* the invocation aborted (panic, failed authorization, failed token call)
Aborted == InvalidAddress + 1

\* ---------------------------------------------------------------- storage
\* the storage an invocation works on
Env ==
  [Asset |-> Asset, Name |-> Name, Symbol |-> Symbol, Decimals |-> Decimals,
   TotalSupply |-> TotalSupply, Balance |-> Balance, Allowance |-> Allowance,
   TokenBalance |-> TokenBalance]

Ok(e, ret) == [err |-> 0, ret |-> ret, env |-> e]
Err(e, code) == [err |-> code, ret |-> 0, env |-> e]

total_supply(e) == e.TotalSupply
balance_of(e, account) == e.Balance[account]
allowance(e, owner, spender) == e.Allowance[<<owner, spender>>]

\* ------------------------------------------------------- the asset token
\* MockToken::balance
token_balance(e, account) == e.TokenBalance[account]

\* MockToken::transfer, invoked by the vault (from is the vault, which
\* authorizes its own sub-invocation); a panic of the token aborts the caller
token_transfer(e, from, to, amount) ==
  LET from_balance == token_balance(e, from) IN
  IF from_balance < amount THEN Err(e, Aborted)
  ELSE
    LET d == Arith(from_balance - amount) IN
    IF ~d.ok THEN Err(e, Aborted)
    ELSE
      LET e1 == [e EXCEPT !.TokenBalance[from] = d.v]
          to_balance == token_balance(e1, to)
          c == Arith(to_balance + amount)
      IN  IF ~c.ok THEN Err(e1, Aborted)
          ELSE Ok([e1 EXCEPT !.TokenBalance[to] = c.v], 0)

\* ------------------------------------------------------ internal functions
\* faulty variant of transfer_internal: no check of the balance
transfer_internal_unchecked(e, from, to, amount) ==
  LET d == Arith(balance_of(e, from) - amount) IN
  IF ~d.ok THEN Err(e, Aborted)
  ELSE
    LET e1 == [e EXCEPT !.Balance[from] = d.v]
        c == Arith(balance_of(e1, to) + amount)
    IN  IF ~c.ok THEN Err(e1, Aborted)
        ELSE Ok([e1 EXCEPT !.Balance[to] = c.v], 0)

transfer_internal(e, from, to, amount) ==
  LET from_balance == balance_of(e, from) IN
  IF from_balance < amount THEN Err(e, InsufficientBalance)
  ELSE
    LET d == Arith(from_balance - amount) IN
    IF ~d.ok THEN Err(e, Aborted)
    ELSE
      LET e1 == [e EXCEPT !.Balance[from] = d.v]
          to_balance == balance_of(e1, to)
          c == Arith(to_balance + amount)
      IN  IF ~c.ok THEN Err(e1, Aborted)
          ELSE Ok([e1 EXCEPT !.Balance[to] = c.v], 0)

mint_internal(e, account, amount) ==
  LET b == Arith(balance_of(e, account) + amount) IN
  IF ~b.ok THEN Err(e, Aborted)
  ELSE
    LET e1 == [e EXCEPT !.Balance[account] = b.v]
        t == Arith(total_supply(e1) + amount)
    IN  IF ~t.ok THEN Err(e1, Aborted)
        ELSE Ok([e1 EXCEPT !.TotalSupply = t.v], 0)

burn_internal(e, account, amount) ==
  LET balance == balance_of(e, account) IN
  IF balance < amount THEN Err(e, InsufficientBalance)
  ELSE
    LET b == Arith(balance - amount) IN
    IF ~b.ok THEN Err(e, Aborted)
    ELSE
      LET e1 == [e EXCEPT !.Balance[account] = b.v]
          t == Arith(total_supply(e1) - amount)
      IN  IF ~t.ok THEN Err(e1, Aborted)
          ELSE Ok([e1 EXCEPT !.TotalSupply = t.v], 0)

\* asset(): unwrap() of the stored address aborts while it is unset;
\* total_assets(): the token's balance of the vault
total_assets(e) ==
  IF e.Asset = "None" THEN Trap ELSE Val(token_balance(e, Vault))

\* (x * m) / d, plus 1 when round_up and (x * m) % d > 0
mul_div(x, m, d, round_up) ==
  LET p == Arith(x * m) IN
  IF ~p.ok THEN Trap
  ELSE
    LET q == Div(p.v, d)
        r == Rem(p.v, d)
    IN  IF ~q.ok THEN Trap
        ELSE IF round_up /\ r.v > 0 THEN Arith(q.v + 1)
        ELSE q

\* faulty variant of convert_to_shares_internal: total == 0 is not checked
convert_to_shares_internal_supply_only(e, assets, round_up) ==
  LET supply == total_supply(e)
      total == total_assets(e)
  IN  IF ~total.ok THEN Trap
      ELSE IF supply = 0 THEN Val(assets)
      ELSE mul_div(assets, supply, total.v, round_up)

convert_to_shares_internal(e, assets, round_up) ==
  LET supply == total_supply(e)
      total == total_assets(e)
  IN  IF ~total.ok THEN Trap
      ELSE IF supply = 0 \/ total.v = 0 THEN Val(assets)
      ELSE mul_div(assets, supply, total.v, round_up)

convert_to_assets_internal(e, shares, round_up) ==
  LET supply == total_supply(e)
      total == total_assets(e)
  IN  IF ~total.ok THEN Trap
      ELSE IF supply = 0 \/ total.v = 0 THEN Val(shares)
      ELSE mul_div(shares, total.v, supply, round_up)

\* -------------------------------------------------------- view functions
\* unwrap_or defaults while the keys are unset
name(e) == IF e.Name = "None" THEN "Vault" ELSE e.Name
symbol(e) == IF e.Symbol = "None" THEN "VAULT" ELSE e.Symbol
decimals(e) == IF e.Decimals = -1 THEN 18 ELSE e.Decimals
asset(e) == IF e.Asset = "None" THEN Trap ELSE [ok |-> TRUE, v |-> e.Asset]

convert_to_shares(e, assets) == convert_to_shares_internal(e, assets, FALSE)
\* faulty variant of convert_to_assets: rounds up
convert_to_assets_up(e, shares) == convert_to_assets_internal(e, shares, TRUE)
convert_to_assets(e, shares) == convert_to_assets_internal(e, shares, FALSE)
max_deposit(e, receiver) == Val(I128_MAX)
max_mint(e, receiver) == Val(I128_MAX)
max_withdraw(e, owner) == convert_to_assets_internal(e, balance_of(e, owner), FALSE)
max_redeem(e, owner) == Val(balance_of(e, owner))
preview_deposit(e, assets) == convert_to_shares_internal(e, assets, FALSE)
preview_mint(e, shares) == convert_to_assets_internal(e, shares, TRUE)
preview_withdraw(e, assets) == convert_to_shares_internal(e, assets, TRUE)
preview_redeem(e, shares) == convert_to_assets_internal(e, shares, FALSE)

\* ----------------------------------------------------- mutating functions
\* Each yields [err, ret, env]: the error code (0: Ok), the value returned and
\* the storage as the code leaves it when it returns.  auth: the address named
\* in require_auth has authorized the invocation.
\* faulty variant of initialize: no check of DataKey::Asset
initialize_again(e, args) ==
  Ok([e EXCEPT !.Asset = args.asset, !.Name = args.name,
               !.Symbol = args.symbol, !.Decimals = args.decimals,
               !.TotalSupply = 0], 0)

initialize(e, args) ==
  IF e.Asset # "None" THEN Err(e, InvalidAddress)
  ELSE Ok([e EXCEPT !.Asset = args.asset, !.Name = args.name,
                    !.Symbol = args.symbol, !.Decimals = args.decimals,
                    !.TotalSupply = 0], 0)

transfer(e, auth, from, to, amount) ==
  IF ~auth THEN Err(e, Aborted)
  ELSE transfer_internal(e, from, to, amount)

approve(e, auth, from, spender, amount) ==
  IF ~auth THEN Err(e, Aborted)
  ELSE Ok([e EXCEPT !.Allowance[<<from, spender>>] = amount], 0)

\* faulty variant of spend_allowance: decrements i128::MAX like any other
spend_allowance_always(e, owner, spender, amount) ==
  LET a == allowance(e, owner, spender) IN
  IF a < amount THEN Err(e, InsufficientAllowance)
  ELSE LET d == Arith(a - amount) IN
       IF ~d.ok THEN Err(e, Aborted)
       ELSE Ok([e EXCEPT !.Allowance[<<owner, spender>>] = d.v], 0)

\* the allowance check and decrement shared by transfer_from, withdraw, redeem
spend_allowance(e, owner, spender, amount) ==
  LET a == allowance(e, owner, spender) IN
  IF a < amount THEN Err(e, InsufficientAllowance)
  ELSE IF a # I128_MAX
  THEN LET d == Arith(a - amount) IN
       IF ~d.ok THEN Err(e, Aborted)
       ELSE Ok([e EXCEPT !.Allowance[<<owner, spender>>] = d.v], 0)
  ELSE Ok(e, 0)

transfer_from(e, auth, spender, from, to, amount) ==
  IF ~auth THEN Err(e, Aborted)
  ELSE
    LET s == spend_allowance(e, from, spender, amount) IN
    IF s.err # 0 THEN s
    ELSE transfer_internal(s.env, from, to, amount)

\* faulty variant of deposit: computed shares <= 0 are not rejected
deposit_any_shares(e, auth, assets, receiver) ==
  LET caller == Vault IN
  IF ~auth THEN Err(e, Aborted)
  ELSE IF assets <= 0 THEN Err(e, ZeroAssets)
  ELSE
    LET shares == preview_deposit(e, assets) IN
    IF ~shares.ok THEN Err(e, Aborted)
    ELSE
      LET t == token_transfer(e, caller, Vault, assets) IN
      IF t.err # 0 THEN t
      ELSE
        LET m == mint_internal(t.env, receiver, shares.v) IN
        IF m.err # 0 THEN m ELSE Ok(m.env, shares.v)

\* faulty variant of deposit: the shares are minted before the assets arrive
deposit_shares_first(e, auth, assets, receiver) ==
  LET caller == Vault IN
  IF ~auth THEN Err(e, Aborted)
  ELSE IF assets <= 0 THEN Err(e, ZeroAssets)
  ELSE
    LET shares == preview_deposit(e, assets) IN
    IF ~shares.ok THEN Err(e, Aborted)
    ELSE IF shares.v <= 0 THEN Err(e, ZeroShares)
    ELSE
      LET m == mint_internal(e, receiver, shares.v) IN
      IF m.err # 0 THEN m
      ELSE
        LET t == token_transfer(m.env, caller, Vault, assets) IN
        IF t.err # 0 THEN t ELSE Ok(t.env, shares.v)

\* the assets are pulled from caller, which is the vault's own address
deposit(e, auth, assets, receiver) ==
  LET caller == Vault IN
  IF ~auth THEN Err(e, Aborted)
  ELSE IF assets <= 0 THEN Err(e, ZeroAssets)
  ELSE
    LET shares == preview_deposit(e, assets) IN
    IF ~shares.ok THEN Err(e, Aborted)
    ELSE IF shares.v <= 0 THEN Err(e, ZeroShares)
    ELSE
      LET t == token_transfer(e, caller, Vault, assets) IN
      IF t.err # 0 THEN t
      ELSE
        LET m == mint_internal(t.env, receiver, shares.v) IN
        IF m.err # 0 THEN m ELSE Ok(m.env, shares.v)

mint(e, auth, shares, receiver) ==
  LET caller == Vault IN
  IF ~auth THEN Err(e, Aborted)
  ELSE IF shares <= 0 THEN Err(e, ZeroShares)
  ELSE
    LET assets == preview_mint(e, shares) IN
    IF ~assets.ok THEN Err(e, Aborted)
    ELSE IF assets.v <= 0 THEN Err(e, ZeroAssets)
    ELSE
      LET t == token_transfer(e, caller, Vault, assets.v) IN
      IF t.err # 0 THEN t
      ELSE
        LET m == mint_internal(t.env, receiver, shares) IN
        IF m.err # 0 THEN m ELSE Ok(m.env, assets.v)

\* faulty variant of burn_and_pay: the allowance is neither checked nor lowered
burn_and_pay_unchecked(e, caller, assets, shares, receiver, owner, ret) ==
  LET b == burn_internal(e, owner, shares) IN
  IF b.err # 0 THEN b
  ELSE
    LET t == token_transfer(b.env, Vault, receiver, assets) IN
    IF t.err # 0 THEN t ELSE Ok(t.env, ret)

\* the part withdraw and redeem share once assets and shares are known
burn_and_pay(e, caller, assets, shares, receiver, owner, ret) ==
  LET s == IF caller # owner THEN spend_allowance(e, owner, caller, shares)
           ELSE Ok(e, 0)
  IN  IF s.err # 0 THEN s
      ELSE
        LET b == burn_internal(s.env, owner, shares) IN
        IF b.err # 0 THEN b
        ELSE
          LET t == token_transfer(b.env, Vault, receiver, assets) IN
          IF t.err # 0 THEN t ELSE Ok(t.env, ret)

withdraw(e, auth, assets, receiver, owner) ==
  LET caller == Vault IN
  IF ~auth THEN Err(e, Aborted)
  ELSE IF assets <= 0 THEN Err(e, ZeroAssets)
  ELSE
    LET shares == preview_withdraw(e, assets) IN
    IF ~shares.ok THEN Err(e, Aborted)
    ELSE IF shares.v <= 0 THEN Err(e, ZeroShares)
    ELSE burn_and_pay(e, caller, assets, shares.v, receiver, owner, shares.v)

redeem(e, auth, shares, receiver, owner) ==
  LET caller == Vault IN
  IF ~auth THEN Err(e, Aborted)
  ELSE IF shares <= 0 THEN Err(e, ZeroShares)
  ELSE
    LET assets == preview_redeem(e, shares) IN
    IF ~assets.ok THEN Err(e, Aborted)
    ELSE IF assets.v <= 0 THEN Err(e, ZeroAssets)
    ELSE burn_and_pay(e, caller, assets.v, shares, receiver, owner, assets.v)

\* ------------------------------------------------------------ the machine
RECURSIVE SumOver(_, _)
SumOver(f, S) ==
  IF S = {} THEN 0
  ELSE LET x == CHOOSE y \in S : TRUE IN f[x] + SumOver(f, S \ {x})

\* After construction nothing is stored.  The asset token is a contract of
\* its own: the vault's address may already hold some of it.
Init ==
  /\ overflow_checks \in BOOLEAN
  /\ Asset = "None" /\ Name = "None" /\ Symbol = "None" /\ Decimals = -1
  /\ TotalSupply = 0
  /\ Balance = [a \in Address |-> 0]
  /\ Allowance = [p \in Address \X Address |-> 0]
  /\ \E held \in 0..MaxTokens :
       TokenBalance = [a \in Address |-> IF a = Vault THEN held ELSE 0]
  /\ last = [op |-> "none", err |-> 0, ret |-> 0, amount |-> 0]
  /\ calls = 0
  /\ received = 0
  /\ paid_out = 0
  /\ approved = FALSE
  /\ vault_only = TRUE
  /\ authorized = TRUE
  /\ deposited = FALSE

\* A behaviour is followed for MaxCalls committed invocations, and up to its
\* first failed one: a failed invocation leaves the storage as it was, so
\* whatever could follow it could as well take its place.
Running == calls < MaxCalls /\ last.err = 0

\* faulty variant of Host: the writes of a failed invocation are kept
HostKeepsWrites(op, out, amount) ==
  /\ overflow_checks' = overflow_checks
  /\ last' = [op |-> op, err |-> out.err, ret |-> out.ret,
              amount |-> IF out.err = 0 THEN amount ELSE 0]
  /\ Asset' = out.env.Asset
  /\ Name' = out.env.Name
  /\ Symbol' = out.env.Symbol
  /\ Decimals' = out.env.Decimals
  /\ TotalSupply' = out.env.TotalSupply
  /\ Balance' = out.env.Balance
  /\ Allowance' = out.env.Allowance
  /\ TokenBalance' = out.env.TokenBalance
  /\ calls' = IF out.err = 0 THEN calls + 1 ELSE calls

\* The host runs one invocation: its writes are kept when it returns Ok and
\* discarded when it returns Err or aborts.
Host(op, out, amount) ==
  /\ overflow_checks' = overflow_checks
  /\ last' = [op |-> op, err |-> out.err, ret |-> out.ret,
              amount |-> IF out.err = 0 THEN amount ELSE 0]
  /\ IF out.err = 0
     THEN /\ Asset' = out.env.Asset
          /\ Name' = out.env.Name
          /\ Symbol' = out.env.Symbol
          /\ Decimals' = out.env.Decimals
          /\ TotalSupply' = out.env.TotalSupply
          /\ Balance' = out.env.Balance
          /\ Allowance' = out.env.Allowance
          /\ TokenBalance' = out.env.TokenBalance
          /\ calls' = calls + 1
     ELSE UNCHANGED <<Asset, Name, Symbol, Decimals, TotalSupply, Balance,
                      Allowance, TokenBalance, calls>>

\* initialize has no require_auth: it runs the same with or without the
\* authorization of whoever invokes it
Initialize ==
  /\ Running
  /\ \E auth \in BOOLEAN : \E args \in InitArgs :
    /\ Host("initialize", initialize(Env, args), 0)
    /\ authorized' = auth
    /\ deposited' = deposited
    /\ UNCHANGED <<received, paid_out, approved, vault_only>>

Transfer ==
  /\ Running
  /\ \E auth \in BOOLEAN : \E from \in Addrs(auth), to \in Addrs(auth), amount \in Amts(auth) :
    /\ Host("transfer", transfer(Env, auth, from, to, amount), amount)
    /\ authorized' = auth
    /\ deposited' = deposited
    /\ vault_only' = (vault_only /\ last'.err # 0)
    /\ UNCHANGED <<received, paid_out, approved>>

Approve ==
  /\ Running
  /\ \E auth \in BOOLEAN : \E from \in Addrs(auth), spender \in Addrs(auth), amount \in Amts(auth) :
    /\ Host("approve", approve(Env, auth, from, spender, amount), amount)
    /\ authorized' = auth
    /\ deposited' = deposited
    /\ approved' = (approved \/ last'.err = 0)
    /\ vault_only' = (vault_only /\ last'.err # 0)
    /\ UNCHANGED <<received, paid_out>>

TransferFrom ==
  /\ Running
  /\ \E auth \in BOOLEAN : \E spender \in Addrs(auth), from \in Addrs(auth), to \in Addrs(auth),
     amount \in Amts(auth) :
    /\ Host("transfer_from", transfer_from(Env, auth, spender, from, to, amount), amount)
    /\ authorized' = auth
    /\ deposited' = deposited
    /\ vault_only' = (vault_only /\ last'.err # 0)
    /\ UNCHANGED <<received, paid_out, approved>>

Deposit ==
  /\ Running
  /\ \E auth \in BOOLEAN : \E assets \in Amts(auth), receiver \in Addrs(auth) :
    /\ Host("deposit", deposit(Env, auth, assets, receiver), assets)
    /\ authorized' = auth
    /\ deposited' = (deposited \/ last'.err = 0)
    /\ received' = received + (TokenBalance'[Vault] - TokenBalance[Vault])
    /\ UNCHANGED <<paid_out, approved, vault_only>>

Mint ==
  /\ Running
  /\ \E auth \in BOOLEAN : \E shares \in Amts(auth), receiver \in Addrs(auth) :
    /\ Host("mint", mint(Env, auth, shares, receiver), shares)
    /\ authorized' = auth
    /\ deposited' = (deposited \/ last'.err = 0)
    /\ received' = received + (TokenBalance'[Vault] - TokenBalance[Vault])
    /\ UNCHANGED <<paid_out, approved, vault_only>>

Withdraw ==
  /\ Running
  /\ \E auth \in BOOLEAN : \E assets \in Amts(auth), receiver \in Addrs(auth), owner \in Addrs(auth) :
    /\ Host("withdraw", withdraw(Env, auth, assets, receiver, owner), assets)
    /\ authorized' = auth
    /\ deposited' = deposited
    /\ paid_out' = paid_out + (TokenBalance[Vault] - TokenBalance'[Vault])
    /\ UNCHANGED <<received, approved, vault_only>>

Redeem ==
  /\ Running
  /\ \E auth \in BOOLEAN : \E shares \in Amts(auth), receiver \in Addrs(auth), owner \in Addrs(auth) :
    /\ Host("redeem", redeem(Env, auth, shares, receiver, owner), shares)
    /\ authorized' = auth
    /\ deposited' = deposited
    /\ paid_out' = paid_out + (TokenBalance[Vault] - TokenBalance'[Vault])
    /\ UNCHANGED <<received, approved, vault_only>>

\* MockToken::mint: anybody may come to hold more of the asset, the vault's
\* address included
TokenMint ==
  /\ Running
  /\ \E to \in Address, amount \in 1..SmallAmt :
    /\ SumOver(TokenBalance, Address) + amount <= MaxTokens
    /\ TokenBalance' = [TokenBalance EXCEPT ![to] = @ + amount]
    /\ calls' = calls + 1
    /\ last' = [op |-> "token_mint", err |-> 0, ret |-> 0, amount |-> amount]
    /\ vault_only' = FALSE
    /\ authorized' = TRUE
    /\ deposited' = deposited
    /\ UNCHANGED <<overflow_checks, Asset, Name, Symbol, Decimals, TotalSupply,
                   Balance, Allowance, received, paid_out, approved>>

Next ==
  \/ Initialize
  \/ Transfer
  \/ Approve
  \/ TransferFrom
  \/ Deposit
  \/ Mint
  \/ Withdraw
  \/ Redeem
  \/ TokenMint

Spec == Init /\ [][Next]_vars

\* ================================================================ claims

\* C1: total_supply() equals the sum of balance_of(a) over all accounts a.
\* Stated as the claim states it; it fails in the build whose arithmetic wraps.
C1_SupplyIsSumOfBalances == TotalSupply = SumOver(Balance, Address)

\* C2: every share balance and every allowance is >= 0.
C2_NonNegative ==
  /\ \A a \in Address : balance_of(Env, a) >= 0
  /\ \A o \in Address, s \in Address : allowance(Env, o, s) >= 0

\* C3: after any sequence of deposit, mint, withdraw and redeem calls (on the
\* initialized vault), what the vault has paid out of its token balance
\* through withdraw and redeem does not exceed what that balance received
\* through deposit and mint.
C3_NeverPaysOutMoreThanReceived == vault_only => paid_out <= received

\* C4: a successful deposit(assets, receiver) returning shares raises
\* total_assets() by assets and balance_of(receiver) and total_supply() by
\* shares; on a vault with no supply and no assets, shares = assets.
C4_DepositEffect ==
  [][ (last'.op = "deposit" /\ last'.err = 0) =>
        /\ TokenBalance'[Vault] = TokenBalance[Vault] + last'.amount
        /\ TotalSupply' = TotalSupply + last'.ret
        /\ \E receiver \in Address :
             Balance' = [Balance EXCEPT ![receiver] = @ + last'.ret]
        /\ (TotalSupply = 0 /\ TokenBalance[Vault] = 0 => last'.ret = last'.amount)
    ]_vars

\* what C5 expects of an outcome w of withdrawing or redeeming a from owner
ReducesByExactly(w, a, owner) ==
  /\ w.err = 0
  /\ w.ret = a
  /\ w.env.Balance[owner] = Balance[owner] - a
  /\ w.env.TotalSupply = TotalSupply - a
  /\ w.env.TokenBalance[Vault] = TokenBalance[Vault] - a

\* C5: right after a deposit that leaves the vault at a 1:1 ratio, with no
\* approve ever made, a depositor owner (a user, as is the receiver) can
\* withdraw(a, receiver, owner) and redeem(a, receiver, owner) for
\* 0 < a <= balance_of(owner): the call returns a and reduces
\* balance_of(owner), total_supply() and total_assets() by a.
C5_WithdrawAfterDeposit ==
  (last.op = "deposit" /\ last.err = 0 /\ ~approved
     /\ TotalSupply = TokenBalance[Vault]) =>
    \A owner \in Address \ {Vault}, receiver \in Address \ {Vault}, a \in 1..I128_MAX :
      a <= balance_of(Env, owner) =>
        /\ ReducesByExactly(withdraw(Env, TRUE, a, receiver, owner), a, owner)
        /\ ReducesByExactly(redeem(Env, TRUE, a, receiver, owner), a, owner)

\* C6: convert_to_shares(convert_to_assets(s)) <= s and
\* convert_to_assets(convert_to_shares(a)) <= a for all s, a >= 0, wherever
\* the conversions return.
C6_RoundTripNeverGains ==
  \A x \in 0..I128_MAX :
    /\ LET a == convert_to_assets(Env, x) IN
       a.ok => LET s == convert_to_shares(Env, a.v) IN s.ok => s.v <= x
    /\ LET s == convert_to_shares(Env, x) IN
       s.ok => LET a == convert_to_assets(Env, s.v) IN a.ok => a.v <= x

C6_Witness ==
  /\ Asset # "None" /\ TotalSupply > 0 /\ TokenBalance[Vault] > 0
  /\ \E x \in 0..I128_MAX :
       LET a == convert_to_assets(Env, x) IN
       /\ a.ok
       /\ LET s == convert_to_shares(Env, a.v) IN s.ok /\ s.v < x

\* the asset token's balances after x units went from one address to another
Moved(x, from, to) ==
  TokenBalance' = [TokenBalance EXCEPT ![from] = @ - x, ![to] = @ + x]

\* C7: a successful deposit, mint, withdraw or redeem returns what its
\* preview returned in the state before the call; the shares minted or
\* burned and the assets moved are that value and the caller's input.
C7_ReturnsItsPreview ==
  [][ last'.err = 0 =>
        /\ last'.op = "deposit" =>
             LET p == preview_deposit(Env, last'.amount) IN
             /\ p.ok /\ last'.ret = p.v
             /\ TotalSupply' - TotalSupply = last'.ret
             /\ TokenBalance'[Vault] - TokenBalance[Vault] = last'.amount
        /\ last'.op = "mint" =>
             LET p == preview_mint(Env, last'.amount) IN
             /\ p.ok /\ last'.ret = p.v
             /\ TotalSupply' - TotalSupply = last'.amount
             /\ TokenBalance'[Vault] - TokenBalance[Vault] = last'.ret
        /\ last'.op = "withdraw" =>
             LET p == preview_withdraw(Env, last'.amount) IN
             /\ p.ok /\ last'.ret = p.v
             /\ TotalSupply - TotalSupply' = last'.ret
             /\ \E receiver \in Address : Moved(last'.amount, Vault, receiver)
        /\ last'.op = "redeem" =>
             LET p == preview_redeem(Env, last'.amount) IN
             /\ p.ok /\ last'.ret = p.v
             /\ TotalSupply - TotalSupply' = last'.amount
             /\ \E receiver \in Address : Moved(last'.ret, Vault, receiver)
    ]_vars

\* C8: the query-only helpers return a value in every reachable state, for
\* every argument.
C8_QueriesNeverFail ==
  /\ total_assets(Env).ok
  /\ \A x \in I128 :
       /\ convert_to_shares(Env, x).ok /\ convert_to_assets(Env, x).ok
       /\ preview_deposit(Env, x).ok /\ preview_mint(Env, x).ok
       /\ preview_withdraw(Env, x).ok /\ preview_redeem(Env, x).ok
  /\ \A a \in Address :
       /\ max_deposit(Env, a).ok /\ max_mint(Env, a).ok
       /\ max_withdraw(Env, a).ok /\ max_redeem(Env, a).ok

\* floor(x * m / d), plus 1 when rounding up with a nonzero remainder
ExactMulDiv(x, m, d, round_up) ==
  ((x * m) \div d) + (IF round_up /\ (x * m) % d # 0 THEN 1 ELSE 0)

\* C9: whenever supply > 0, total > 0 and the exact quotient fits in i128,
\* the conversions return that quotient, also when the product does not fit.
C9_ExactQuotient ==
  (Asset # "None" /\ TotalSupply > 0 /\ TokenBalance[Vault] > 0) =>
    \A x \in 0..I128_MAX, round_up \in BOOLEAN :
      /\ LET q == ExactMulDiv(x, TotalSupply, TokenBalance[Vault], round_up) IN
         InRange(q) => convert_to_shares_internal(Env, x, round_up) = Val(q)
      /\ LET q == ExactMulDiv(x, TokenBalance[Vault], TotalSupply, round_up) IN
         InRange(q) => convert_to_assets_internal(Env, x, round_up) = Val(q)

\* C10: once initialize has succeeded, every initialize fails with
\* InvalidAddress, and asset(), name(), symbol() and decimals() keep the
\* values the first initialize was given; no initialize resets total_supply.
C10_InitializeOnce ==
  [][ /\ (Asset = "None" /\ Asset' # "None") =>
           /\ last'.op = "initialize" /\ last'.err = 0
           /\ \E args \in InitArgs :
                /\ asset(Env').v = args.asset /\ name(Env') = args.name
                /\ symbol(Env') = args.symbol /\ decimals(Env') = args.decimals
      /\ Asset # "None" =>
           /\ \A args \in InitArgs : initialize(Env, args).err = InvalidAddress
           /\ last'.op = "initialize" => last'.err = InvalidAddress
           /\ asset(Env') = asset(Env) /\ name(Env') = name(Env)
           /\ symbol(Env') = symbol(Env) /\ decimals(Env') = decimals(Env)
      /\ last'.op = "initialize" => TotalSupply' = TotalSupply
    ]_vars

C10_Witness ==
  /\ last.op = "initialize" /\ last.err = InvalidAddress
  /\ Asset # "None" /\ TotalSupply # 0

\* C11: transfer(from, to, amount), authorized by from, with
\* balance_of(from) < amount fails with InsufficientBalance, having written
\* nothing; after it every balance, every allowance and total_supply are as
\* before.
C11_TransferBeyondBalanceFails ==
  /\ [](LET e == Env IN
        \A from \in Address, amount \in Amounts :
          balance_of(e, from) < amount =>
            \A to \in Address :
              LET t == transfer(e, TRUE, from, to, amount)
              IN  t.err = InsufficientBalance /\ t.env = e)
  /\ [][ (last'.op = "transfer" /\ last'.err = InsufficientBalance) =>
           UNCHANGED <<Balance, Allowance, TotalSupply>> ]_vars

C11_Witness ==
  /\ last.op = "transfer" /\ last.err = InsufficientBalance
  /\ \E a \in Address : balance_of(Env, a) > 0

\* C12: with A = allowance(from, spender) other than i128::MAX,
\* transfer_from(spender, from, to, amount) authorized by spender fails with
\* InsufficientAllowance when amount > A; when it succeeds, the allowance is
\* A - amount, balance_of(from) is amount lower and balance_of(to) amount
\* higher.
C12_TransferFromSpendsAllowance ==
  LET e == Env IN
  \A spender \in Address, from \in Address, amount \in Amounts :
    LET A == allowance(e, from, spender) IN
    A # I128_MAX =>
      \A to \in Address :
        LET t == transfer_from(e, TRUE, spender, from, to, amount) IN
        /\ amount > A => t.err = InsufficientAllowance
        /\ t.err = 0 =>
             /\ allowance(t.env, from, spender) = A - amount
             /\ t.env.Balance =
                  IF from = to THEN e.Balance
                  ELSE [e.Balance EXCEPT ![from] = @ - amount, ![to] = @ + amount]

\* C13: an allowance that is i128::MAX stays i128::MAX through every
\* invocation other than approve, whatever transfer_from, withdraw and redeem
\* spend from it.
C13_SentinelNeverDecremented ==
  [][ \A p \in Address \X Address :
        (Allowance[p] = I128_MAX /\ last'.op # "approve") =>
          Allowance'[p] = I128_MAX ]_vars

\* a transfer_from of a positive amount has succeeded while the only nonzero
\* allowance, the one it spent from, is i128::MAX
C13_Witness ==
  /\ last.op = "transfer_from" /\ last.err = 0 /\ last.amount > 0
  /\ TotalSupply > 0
  /\ \E p \in Address \X Address :
       /\ Allowance[p] = I128_MAX
       /\ \A q \in (Address \X Address) \ {p} : Allowance[q] = 0

\* C14: a deposit(a, r) that succeeds on a vault with total_supply() equal to
\* total_assets() (empty, or at 1:1) and returns s can be followed at once by
\* r redeeming s shares: the redeem returns a, and total_supply() and
\* balance_of(r) are back at their values before the deposit.
C14_DepositThenRedeemAll ==
  [][ (last'.op = "deposit" /\ last'.err = 0 /\ TotalSupply = TokenBalance[Vault]) =>
        \A r \in Address :
          Balance' = [Balance EXCEPT ![r] = @ + last'.ret] =>
            \A receiver \in Address :
              LET w == redeem(Env', TRUE, last'.ret, receiver, r) IN
              /\ w.err = 0
              /\ w.ret = last'.amount
              /\ total_supply(w.env) = TotalSupply
              /\ balance_of(w.env, r) = Balance[r]
    ]_vars

C16_SupplyNonNegative ==
  LET e == Env IN
  /\ total_supply(e) >= 0
  /\ \A a \in Address, b \in Address, amount \in Amounts :
       /\ total_supply(transfer(e, TRUE, a, b, amount).env) = total_supply(e)
       /\ total_supply(approve(e, TRUE, a, b, amount).env) = total_supply(e)
       /\ \A c \in Address :
            total_supply(transfer_from(e, TRUE, a, b, c, amount).env) = total_supply(e)

\* C17: a successful deposit or mint does not lower
\* convert_to_assets(balance_of(x)) for any holder x other than the receiver
\* it credits.
C17_NoDilution ==
  [][ (last'.op \in {"deposit", "mint"} /\ last'.err = 0) =>
        \A x \in Address :
          Balance'[x] = Balance[x] =>
            LET before == convert_to_assets(Env, balance_of(Env, x))
                after == convert_to_assets(Env', balance_of(Env', x))
            IN  /\ before.ok => after.ok
                /\ (before.ok /\ after.ok) => after.v >= before.v
    ]_vars

WroteThenFailed(out) == out.err # 0 /\ out.env # Env

TouchedShares(e, out) ==
  out.env.Balance # e.Balance \/ out.env.TotalSupply # e.TotalSupply

\* C19: deposit and mint write no share balance and no total_supply unless
\* their transfer of the assets to the vault has succeeded; withdraw and
\* redeem pay nothing out unless they have burned the owner's shares, and
\* have burned them whenever they return Ok.  (The storage after a failed
\* invocation is the storage before it, so the states after a successful one
\* cover every storage.)
C19_CustodyBeforeShares ==
  last.err = 0 =>
  LET e == Env IN
  \A x \in Amounts :
    IF x <= 0
    THEN \* rejected before anything is written
         \A a \in Address :
           /\ deposit(e, TRUE, x, a) = Err(e, ZeroAssets)
           /\ mint(e, TRUE, x, a) = Err(e, ZeroShares)
           /\ withdraw(e, TRUE, x, a, a) = Err(e, ZeroAssets)
           /\ redeem(e, TRUE, x, a, a) = Err(e, ZeroShares)
    ELSE
      LET assets == preview_mint(e, x)
          shares == preview_withdraw(e, x)
          arrived == token_transfer(e, Vault, Vault, x).err = 0
          arrived_m == assets.ok /\ token_transfer(e, Vault, Vault, assets.v).err = 0
      IN
      \A receiver \in Address :
        /\ LET d == deposit(e, TRUE, x, receiver) IN
           /\ TouchedShares(e, d) => arrived
           /\ d.err = 0 => TouchedShares(e, d)
        /\ LET m == mint(e, TRUE, x, receiver) IN
           /\ TouchedShares(e, m) => arrived_m
           /\ m.err = 0 => TouchedShares(e, m)
        /\ \A owner \in Address :
             LET w == withdraw(e, TRUE, x, receiver, owner)
                 r == redeem(e, TRUE, x, receiver, owner)
             IN  /\ (w.err = 0 \/ w.env.TokenBalance # e.TokenBalance) =>
                      (/\ shares.ok /\ balance_of(e, owner) >= shares.v
                       /\ w.env.TotalSupply # e.TotalSupply)
                 /\ (r.err = 0 \/ r.env.TokenBalance # e.TokenBalance) =>
                      (balance_of(e, owner) >= x /\ r.env.TotalSupply # e.TotalSupply)

\* a deposit has failed in a state where every authorized deposit that aborts
\* does so because the transfer of the assets fails
C19_Witness ==
  /\ last.op = "deposit" /\ last.err = Aborted /\ authorized
  /\ Asset # "None" /\ TotalSupply > 0
  /\ \A x \in Amounts, receiver \in Address :
       LET d == deposit(Env, TRUE, x, receiver) IN
       d.err = Aborted =>
         (token_transfer(Env, Vault, Vault, x).err # 0 /\ ~TouchedShares(Env, d))

\* C20: an invocation of initialize, transfer, approve, transfer_from,
\* deposit, mint, withdraw or redeem that does not carry the authorization of
\* its caller fails and changes nothing.
C20_NoEffectWithoutAuthorization ==
  [][ ~authorized' =>
        /\ last'.err # 0
        /\ UNCHANGED <<Asset, Name, Symbol, Decimals, TotalSupply, Balance,
                       Allowance, TokenBalance>> ]_vars

\* what C21 expects of an outcome w of withdraw or redeem burning shares of
\* owner, the caller being the vault's own address
AllowanceRule(e, w, shares, owner) ==
  LET a == allowance(e, owner, Vault) IN
  IF owner = Vault
  THEN w.env.Allowance = e.Allowance
  ELSE /\ a < shares => w.err = InsufficientAllowance
       /\ w.err = 0 =>
            /\ a >= shares
            /\ w.env.Allowance =
                 IF a = I128_MAX THEN e.Allowance
                 ELSE [e.Allowance EXCEPT ![<<owner, Vault>>] = a - shares]

C22_NonPositiveRejected ==
  /\ [](last.err = 0 =>
        LET e == Env IN
        \A x \in Amounts, a \in Address :
          IF x <= 0
          THEN /\ deposit(e, TRUE, x, a) = Err(e, ZeroAssets)
               /\ mint(e, TRUE, x, a) = Err(e, ZeroShares)
               /\ \A b \in Address :
                    /\ withdraw(e, TRUE, x, a, b) = Err(e, ZeroAssets)
                    /\ redeem(e, TRUE, x, a, b) = Err(e, ZeroShares)
          ELSE LET pd == preview_deposit(e, x)
                   pm == preview_mint(e, x)
                   pw == preview_withdraw(e, x)
                   pr == preview_redeem(e, x)
               IN  /\ (pd.ok /\ pd.v <= 0) => deposit(e, TRUE, x, a) = Err(e, ZeroShares)
                   /\ (pm.ok /\ pm.v <= 0) => mint(e, TRUE, x, a) = Err(e, ZeroAssets)
                   /\ \A b \in Address :
                        /\ (pw.ok /\ pw.v <= 0) =>
                             withdraw(e, TRUE, x, a, b) = Err(e, ZeroShares)
                        /\ (pr.ok /\ pr.v <= 0) =>
                             redeem(e, TRUE, x, a, b) = Err(e, ZeroAssets))
  /\ [][ (last'.err = 0 /\ last'.op \in {"deposit", "mint", "withdraw", "redeem"}) =>
           /\ last'.amount > 0 /\ last'.ret > 0
           /\ TotalSupply' # TotalSupply ]_vars

\* a deposit of a positive amount has failed because its shares round to 0
C22_Witness ==
  /\ last.op = "deposit" /\ last.err = ZeroShares
  /\ TotalSupply > 0 /\ TotalSupply < TokenBalance[Vault]

\* C23: a successful transfer(from, to, amount) or
\* transfer_from(spender, from, to, amount) does not lower balance_of(to)
\* for to # from and does not raise allowance(from, spender), whatever the
\* amount.
C23_RecipientNeverLoses ==
  LET e == Env IN
  \A from \in Address, to \in Address, amount \in Amounts :
    /\ LET t == transfer(e, TRUE, from, to, amount) IN
       (t.err = 0 /\ to # from) => balance_of(t.env, to) >= balance_of(e, to)
    /\ \A spender \in Address :
         LET t == transfer_from(e, TRUE, spender, from, to, amount) IN
         t.err = 0 =>
           /\ to # from => balance_of(t.env, to) >= balance_of(e, to)
           /\ allowance(t.env, from, spender) <= allowance(e, from, spender)

\* C24: wherever the queries return, preview_withdraw(max_withdraw(owner))
\* <= balance_of(owner) and max_redeem(owner) = balance_of(owner), and
\* neither withdraw(max_withdraw(owner), receiver, owner) nor
\* redeem(max_redeem(owner), receiver, owner) fails with InsufficientBalance.
C24_MaxIsWithinBalance ==
  LET e == Env IN
  \A owner \in Address :
    /\ max_redeem(e, owner) = Val(balance_of(e, owner))
    /\ LET mw == max_withdraw(e, owner) IN
       mw.ok =>
         /\ LET p == preview_withdraw(e, mw.v) IN
            p.ok => p.v <= balance_of(e, owner)
         /\ \A receiver \in Address :
              withdraw(e, TRUE, mw.v, receiver, owner).err # InsufficientBalance
    /\ \A receiver \in Address :
         redeem(e, TRUE, balance_of(e, owner), receiver, owner).err # InsufficientBalance
====
